---- MODULE Spec2Model ----
(***************************************************************************)
(* Model of splatbridge/ros_trainer.py: ROSTrainer.setup(), the start-up   *)
(* orchestration followed by the readiness gate that polls the ingestion   *)
(* buffer's current_idx against num_msgs_to_start with a wall-clock        *)
(* timeout.  Time is counted in ticks of 0.025 s, so time.sleep(0.05) is   *)
(* SleepTicks = 2 ticks and the buffer writer can act inside a sleep.      *)
(***************************************************************************)
EXTENDS Integers, Sequences, FiniteSets, TLC

\* ---------------------------------------------------------------- bounds
MaxTimeout == 3    \* msg_timeout ranges over 0..MaxTimeout ticks
MaxMsgs == 3       \* num_msgs_to_start ranges up to MaxMsgs
BadMsgs == 1       \* ... and down to -BadMsgs (values the config type admits)
MaxIdx == 3        \* largest buffer count the writer produces
MaxTime == 2       \* latest clock value the scheduler delays to by itself

\* time.sleep(0.05), in ticks
SleepTicks == 2

Errors == {"RuntimeError", "OSError"}

VARIABLES
    msg_timeout, num_msgs_to_start,          \* ROSTrainer.__init__
    legacy_enabled, viewer_enabled, local_rank,
    pipeline, optimizers, viewer_state, banner_messages, callbacks, dataset,
    writers, local_banner,                   \* nerfstudio.utils.writer / profiler
    start, status, dl_idx, shown, wake,      \* locals of setup()
    pc, outcome, exception, thrown,
    now, current_idx,                        \* clock, ingestion buffer
    trace,                                   \* steps and console lines, in order
    gate, polls, sleeps, prevRead,           \* observers of the gate
    readyObserved, reachedInTime, idxAtEntry, testedAt

config == <<msg_timeout, num_msgs_to_start, legacy_enabled, viewer_enabled, local_rank>>
trainer == <<pipeline, optimizers, viewer_state, banner_messages, callbacks, dataset>>
logging == <<writers, local_banner>>
locals == <<start, status, dl_idx, shown, wake>>
observers == <<gate, polls, sleeps, prevRead, readyObserved, reachedInTime, idxAtEntry,
               testedAt>>
vars == <<config, trainer, logging, locals, pc, outcome, exception, thrown,
          now, current_idx, trace, observers>>

\* ------------------------------------------------------------ pure parts
\* line 125: dl_idx >= (self.num_msgs_to_start - 1)
ReadyOffByOne(idx, k) == idx >= k
ReadyExactOnly(idx, k) == idx = k - 1
Ready(idx, k) == idx >= k - 1

\* line 123: time.perf_counter() - start < self.msg_timeout
WithinDeadlineEarly(t, s, timeout) == t - s + 1 < timeout
WithinDeadline(t, s, timeout) == t - s < timeout

\* line 135: truth value of `status`, which is False (line 118), the rich
\* Status object bound by the with statement (line 122) or True (line 126)
Truthy(s) == s # "False"

NoException == [type |-> "none", at |-> "none"]

\* ROSTrainer.__init__ : the configuration is copied without validation
Init ==
    /\ msg_timeout \in 0..MaxTimeout
    /\ num_msgs_to_start \in (0 - BadMsgs)..MaxMsgs
    /\ legacy_enabled \in BOOLEAN
    /\ viewer_enabled \in BOOLEAN
    /\ local_rank \in {0, 1}
    /\ pipeline = "Unset" /\ optimizers = "Unset" /\ viewer_state = "Unset"
    /\ banner_messages = "Unset" /\ callbacks = "Unset" /\ dataset = "Unset"
    /\ writers = {} /\ local_banner = "Unset"
    /\ start = 0 /\ status = "Unbound" /\ dl_idx = -1 /\ shown = -1 /\ wake = 0
    /\ pc = "pipeline" /\ outcome = "running"
    /\ exception = NoException /\ thrown = NoException
    /\ now = 0 /\ current_idx = 0
    /\ trace = << >>
    /\ gate = "NOT_ENTERED" /\ polls = 0 /\ sleeps = 0 /\ prevRead = -1
    /\ readyObserved = FALSE /\ reachedInTime = FALSE /\ idxAtEntry = -1
    /\ testedAt = 0

\* a step of setup() that completes: control moves on and the step is logged
Advance(from, to, ev) ==
    /\ outcome = "running"
    /\ pc = from
    /\ pc' = to
    /\ trace' = Append(trace, ev)

\* line 52-58
SetupPipeline ==
    /\ Advance("pipeline", "optimizers", "pipeline")
    /\ pipeline' = "Pipeline"
    /\ UNCHANGED <<config, optimizers, viewer_state, banner_messages, callbacks, dataset,
                   logging, locals, outcome, exception, thrown, now, current_idx, observers>>

\* line 59
SetupOptimizers ==
    /\ Advance("optimizers", "viewer_init", "optimizers")
    /\ optimizers' = "Optimizers"
    /\ UNCHANGED <<config, pipeline, viewer_state, banner_messages, callbacks, dataset,
                   logging, locals, outcome, exception, thrown, now, current_idx, observers>>

\* line 62-63
ViewerInit ==
    /\ Advance("viewer_init", "legacy_check", "viewer_init")
    /\ viewer_state' = "None"
    /\ banner_messages' = "None"
    /\ UNCHANGED <<config, pipeline, optimizers, callbacks, dataset,
                   logging, locals, outcome, exception, thrown, now, current_idx, observers>>

\* line 64-67
LegacyCheckAborts ==
    /\ outcome = "running"
    /\ pc = "legacy_check"
    /\ IF legacy_enabled /\ local_rank = 0
         THEN /\ outcome' = "raised"
              /\ exception' = [type |-> "RuntimeError", at |-> "legacy_check"]
              /\ thrown' = exception'
              /\ trace' = Append(trace, "legacy_warning")
              /\ pc' = pc
         ELSE /\ pc' = "viewer_check"
              /\ UNCHANGED <<outcome, exception, thrown, trace>>
    /\ UNCHANGED <<config, trainer, logging, locals, now, current_idx, observers>>
LegacyCheck ==
    /\ outcome = "running"
    /\ pc = "legacy_check"
    /\ pc' = "viewer_check"
    /\ trace' = IF legacy_enabled /\ local_rank = 0
                  THEN Append(trace, "legacy_warning")
                  ELSE trace
    /\ UNCHANGED <<config, trainer, logging, locals, outcome, exception, thrown,
                   now, current_idx, observers>>

\* line 68-81
ViewerCheckAnyRank ==
    /\ outcome = "running"
    /\ pc = "viewer_check"
    /\ pc' = "check_viewer_warnings"
    /\ IF viewer_enabled
         THEN /\ viewer_state' = "ROSViewer"
              /\ banner_messages' = "viewer_info"
              /\ trace' = Append(trace, "viewer")
         ELSE UNCHANGED <<viewer_state, banner_messages, trace>>
    /\ UNCHANGED <<config, pipeline, optimizers, callbacks, dataset,
                   logging, locals, outcome, exception, thrown, now, current_idx, observers>>
ViewerCheck ==
    /\ outcome = "running"
    /\ pc = "viewer_check"
    /\ pc' = "check_viewer_warnings"
    /\ IF viewer_enabled /\ local_rank = 0
         THEN /\ viewer_state' = "ROSViewer"
              /\ banner_messages' = "viewer_info"
              /\ trace' = Append(trace, "viewer")
         ELSE UNCHANGED <<viewer_state, banner_messages, trace>>
    /\ UNCHANGED <<config, pipeline, optimizers, callbacks, dataset,
                   logging, locals, outcome, exception, thrown, now, current_idx, observers>>

\* line 83
CheckViewerWarningsThenCallbacks ==
    /\ Advance("check_viewer_warnings", "callbacks", "check_viewer_warnings")
    /\ UNCHANGED <<config, trainer, logging, locals, outcome, exception, thrown,
                   now, current_idx, observers>>
CheckViewerWarnings ==
    /\ Advance("check_viewer_warnings", "load_checkpoint", "check_viewer_warnings")
    /\ UNCHANGED <<config, trainer, logging, locals, outcome, exception, thrown,
                   now, current_idx, observers>>

\* line 85
LoadCheckpoint ==
    /\ Advance("load_checkpoint", "callbacks", "load_checkpoint")
    /\ UNCHANGED <<config, trainer, logging, locals, outcome, exception, thrown,
                   now, current_idx, observers>>

\* line 87-94
GetTrainingCallbacks ==
    /\ Advance("callbacks", "event_writer", "callbacks")
    /\ callbacks' = "Callbacks"
    /\ UNCHANGED <<config, pipeline, optimizers, viewer_state, banner_messages, dataset,
                   logging, locals, outcome, exception, thrown, now, current_idx, observers>>

\* line 97-105
SetupEventWriterThenConfig ==
    /\ Advance("event_writer", "put_config", "event_writer")
    /\ writers' = writers \cup {"event_writer"}
    /\ UNCHANGED <<config, trainer, local_banner, locals, outcome, exception, thrown,
                   now, current_idx, observers>>
SetupEventWriter ==
    /\ Advance("event_writer", "local_writer", "event_writer")
    /\ writers' = writers \cup {"event_writer"}
    /\ UNCHANGED <<config, trainer, local_banner, locals, outcome, exception, thrown,
                   now, current_idx, observers>>

\* line 106-110
SetupLocalWriter ==
    /\ Advance("local_writer", "put_config", "local_writer")
    /\ writers' = writers \cup {"local_writer"}
    /\ local_banner' = banner_messages
    /\ UNCHANGED <<config, trainer, locals, outcome, exception, thrown,
                   now, current_idx, observers>>

\* line 111-113
PutConfigThenGate ==
    /\ Advance("put_config", "gate_start", "put_config")
    /\ writers' = writers \cup {"config"}
    /\ UNCHANGED <<config, trainer, local_banner, locals, outcome, exception, thrown,
                   now, current_idx, observers>>
PutConfig ==
    /\ Advance("put_config", "profiler", "put_config")
    /\ writers' = writers \cup {"config"}
    /\ UNCHANGED <<config, trainer, local_banner, locals, outcome, exception, thrown,
                   now, current_idx, observers>>

\* line 114
SetupProfiler ==
    /\ Advance("profiler", "gate_start", "profiler")
    /\ writers' = writers \cup {"profiler"}
    /\ UNCHANGED <<config, trainer, local_banner, locals, outcome, exception, thrown,
                   now, current_idx, observers>>

\* the calls of lines 52-114 that can raise; setup() has no try/except
FallibleSteps == {"pipeline", "optimizers", "viewer_init", "viewer_check",
                  "check_viewer_warnings", "load_checkpoint", "callbacks",
                  "event_writer", "local_writer", "put_config", "profiler"}

StepRaisesWrapped ==
    \E e \in Errors :
        /\ outcome = "running"
        /\ pc \in FallibleSteps
        /\ pc = "viewer_check" => (viewer_enabled /\ local_rank = 0)
        /\ thrown' = [type |-> e, at |-> pc]
        /\ exception' = [type |-> "SetupError", at |-> pc]
        /\ outcome' = "raised"
        /\ UNCHANGED <<config, trainer, logging, locals, pc, now, current_idx,
                       trace, observers>>
StepRaises ==
    \E e \in Errors :
        /\ outcome = "running"
        /\ pc \in FallibleSteps
        /\ pc = "viewer_check" => (viewer_enabled /\ local_rank = 0)
        /\ thrown' = [type |-> e, at |-> pc]
        /\ exception' = thrown'
        /\ outcome' = "raised"
        /\ UNCHANGED <<config, trainer, logging, locals, pc, now, current_idx,
                       trace, observers>>

\* line 117-121
GateStart ==
    /\ Advance("gate_start", "with_enter", "print_waiting")
    /\ start' = now
    /\ status' = "False"
    /\ gate' = "WAITING"
    /\ idxAtEntry' = current_idx
    /\ reachedInTime' = (current_idx >= num_msgs_to_start - 1 /\ 0 < msg_timeout)
    /\ UNCHANGED <<config, trainer, logging, dl_idx, shown, wake, outcome, exception,
                   thrown, now, current_idx, polls, sleeps, prevRead, readyObserved,
                   testedAt>>

\* line 122: `with CONSOLE.status(...) as status` rebinds the local `status`
WithEnter ==
    /\ outcome = "running"
    /\ pc = "with_enter"
    /\ pc' = "while_test"
    /\ status' = "Status"
    /\ UNCHANGED <<config, trainer, logging, start, dl_idx, shown, wake, outcome,
                   exception, thrown, now, current_idx, trace, observers>>

\* line 123: the loop condition, tested before every poll
WhileTestPollFirst ==
    /\ outcome = "running"
    /\ pc = "while_test"
    /\ IF polls = 0 \/ WithinDeadline(now, start, msg_timeout)
         THEN pc' = "poll" /\ gate' = gate
         ELSE pc' = "with_exit" /\ gate' = "TIMED_OUT"
    /\ testedAt' = now
    /\ UNCHANGED <<config, trainer, logging, locals, outcome, exception, thrown,
                   now, current_idx, trace, polls, sleeps, prevRead,
                   readyObserved, reachedInTime, idxAtEntry>>
WhileTest ==
    /\ outcome = "running"
    /\ pc = "while_test"
    /\ IF WithinDeadline(now, start, msg_timeout)
         THEN pc' = "poll" /\ gate' = gate
         ELSE pc' = "with_exit" /\ gate' = "TIMED_OUT"
    /\ testedAt' = now
    /\ UNCHANGED <<config, trainer, logging, locals, outcome, exception, thrown,
                   now, current_idx, trace, polls, sleeps, prevRead,
                   readyObserved, reachedInTime, idxAtEntry>>

\* line 124
PollDrains ==
    /\ outcome = "running"
    /\ pc = "poll"
    /\ pc' = "test"
    /\ dl_idx' = current_idx
    /\ current_idx' = 0
    /\ prevRead' = dl_idx
    /\ polls' = polls + 1
    /\ readyObserved' = (readyObserved \/ current_idx >= num_msgs_to_start - 1)
    /\ UNCHANGED <<config, trainer, logging, start, status, shown, wake, outcome,
                   exception, thrown, now, trace, gate, sleeps,
                   reachedInTime, idxAtEntry, testedAt>>
Poll ==
    /\ outcome = "running"
    /\ pc = "poll"
    /\ pc' = "test"
    /\ dl_idx' = current_idx
    /\ prevRead' = dl_idx
    /\ polls' = polls + 1
    /\ readyObserved' = (readyObserved \/ current_idx >= num_msgs_to_start - 1)
    /\ UNCHANGED <<config, trainer, logging, start, status, shown, wake, outcome,
                   exception, thrown, now, current_idx, trace, gate, sleeps,
                   reachedInTime, idxAtEntry, testedAt>>

\* line 125-130
TestStallDetect ==
    /\ outcome = "running"
    /\ pc = "test"
    /\ IF Ready(dl_idx, num_msgs_to_start)
         THEN /\ status' = "True"
              /\ gate' = "READY"
              /\ pc' = "with_exit"
              /\ shown' = shown
         ELSE IF dl_idx = prevRead
                THEN /\ gate' = "TIMED_OUT"
                     /\ pc' = "with_exit"
                     /\ UNCHANGED <<status, shown>>
                ELSE /\ shown' = dl_idx
                     /\ pc' = "sleep"
                     /\ UNCHANGED <<status, gate>>
    /\ UNCHANGED <<config, trainer, logging, start, dl_idx, wake, outcome, exception,
                   thrown, now, current_idx, trace, polls, sleeps, prevRead,
                   readyObserved, reachedInTime, idxAtEntry, testedAt>>
TestNoBreak ==
    /\ outcome = "running"
    /\ pc = "test"
    /\ pc' = "sleep"
    /\ IF Ready(dl_idx, num_msgs_to_start)
         THEN /\ status' = "True"
              /\ gate' = "READY"
              /\ shown' = shown
         ELSE /\ shown' = dl_idx
              /\ UNCHANGED <<status, gate>>
    /\ UNCHANGED <<config, trainer, logging, start, dl_idx, wake, outcome, exception,
                   thrown, now, current_idx, trace, polls, sleeps, prevRead,
                   readyObserved, reachedInTime, idxAtEntry, testedAt>>
Test ==
    /\ outcome = "running"
    /\ pc = "test"
    /\ IF Ready(dl_idx, num_msgs_to_start)
         THEN /\ status' = "True"
              /\ gate' = "READY"
              /\ pc' = "with_exit"
              /\ shown' = shown
         ELSE /\ shown' = dl_idx
              /\ pc' = "sleep"
              /\ UNCHANGED <<status, gate>>
    /\ UNCHANGED <<config, trainer, logging, start, dl_idx, wake, outcome, exception,
                   thrown, now, current_idx, trace, polls, sleeps, prevRead,
                   readyObserved, reachedInTime, idxAtEntry, testedAt>>

\* line 131: time.sleep(0.05) returns no earlier than 0.05 s later
Sleep ==
    /\ outcome = "running"
    /\ pc = "sleep"
    /\ pc' = "sleeping"
    /\ wake' = now + SleepTicks
    /\ sleeps' = sleeps + 1
    /\ UNCHANGED <<config, trainer, logging, start, status, dl_idx, shown, outcome,
                   exception, thrown, now, current_idx, trace, gate, polls, prevRead,
                   readyObserved, reachedInTime, idxAtEntry, testedAt>>

Wake ==
    /\ outcome = "running"
    /\ pc = "sleeping"
    /\ now >= wake
    /\ pc' = "while_test"
    /\ UNCHANGED <<config, trainer, logging, locals, outcome, exception, thrown,
                   now, current_idx, trace, observers>>

\* line 122: leaving the with block (loop ended or break)
WithExit ==
    /\ outcome = "running"
    /\ pc = "with_exit"
    /\ pc' = "assign_dataset"
    /\ UNCHANGED <<config, trainer, logging, locals, outcome, exception, thrown,
                   now, current_idx, trace, observers>>

\* line 133
AssignDataset ==
    /\ Advance("assign_dataset", "final_check", "dataset")
    /\ dataset' = "train_dataset"
    /\ UNCHANGED <<config, pipeline, optimizers, viewer_state, banner_messages, callbacks,
                   logging, locals, outcome, exception, thrown, now, current_idx, observers>>

\* line 135-143
FinalCheckInverted ==
    /\ outcome = "running"
    /\ pc = "final_check"
    /\ pc' = "done"
    /\ IF Truthy(status)
         THEN /\ outcome' = "raised"
              /\ thrown' = [type |-> "NameError", at |-> "final_check"]
              /\ exception' = thrown'
              /\ trace' = trace
         ELSE /\ outcome' = "returned"
              /\ trace' = Append(trace, "print_filled")
              /\ UNCHANGED <<exception, thrown>>
    /\ UNCHANGED <<config, trainer, logging, locals, now, current_idx, observers>>
FinalCheck ==
    /\ outcome = "running"
    /\ pc = "final_check"
    /\ pc' = "done"
    /\ IF ~Truthy(status)
         THEN /\ outcome' = "raised"
              /\ thrown' = [type |-> "NameError", at |-> "final_check"]
              /\ exception' = thrown'
              /\ trace' = trace
         ELSE /\ outcome' = "returned"
              /\ trace' = Append(trace, "print_filled")
              /\ UNCHANGED <<exception, thrown>>
    /\ UNCHANGED <<config, trainer, logging, locals, now, current_idx, observers>>

\* the ingestion collaborator appends observations on its own thread; the
\* count may grow by any amount between two steps of setup()
Writer ==
    /\ pipeline # "Unset"
    /\ \E n \in (current_idx + 1)..MaxIdx :
        /\ current_idx' = n
        /\ reachedInTime' = (reachedInTime \/ (/\ gate = "WAITING"
                                               /\ now - start < msg_timeout
                                               /\ n >= num_msgs_to_start - 1))
    /\ UNCHANGED <<config, trainer, logging, locals, pc, outcome, exception, thrown,
                   now, trace, gate, polls, sleeps, prevRead, readyObserved, idxAtEntry,
                   testedAt>>

\* time.perf_counter() advances between any two steps and during the sleep
Tick ==
    /\ outcome = "running"
    /\ now < MaxTime \/ (pc = "sleeping" /\ now < wake)
    /\ now' = now + 1
    /\ UNCHANGED <<config, trainer, logging, locals, pc, outcome, exception, thrown,
                   current_idx, trace, observers>>

Next ==
    \/ SetupPipeline
    \/ SetupOptimizers
    \/ ViewerInit
    \/ LegacyCheck
    \/ ViewerCheck
    \/ CheckViewerWarnings
    \/ LoadCheckpoint
    \/ GetTrainingCallbacks
    \/ SetupEventWriter
    \/ SetupLocalWriter
    \/ PutConfig
    \/ SetupProfiler
    \/ StepRaises
    \/ GateStart
    \/ WithEnter
    \/ WhileTest
    \/ Poll
    \/ Test
    \/ Sleep
    \/ Wake
    \/ WithExit
    \/ AssignDataset
    \/ FinalCheck
    \/ Writer
    \/ Tick

Spec == Init /\ [][Next]_vars

\* the steps taken by the thread that runs setup()
SetupStep ==
    \/ SetupPipeline \/ SetupOptimizers \/ ViewerInit \/ LegacyCheck \/ ViewerCheck
    \/ CheckViewerWarnings \/ LoadCheckpoint \/ GetTrainingCallbacks
    \/ SetupEventWriter \/ SetupLocalWriter \/ PutConfig \/ SetupProfiler
    \/ GateStart \/ WithEnter \/ WhileTest \/ Poll \/ Test \/ Sleep \/ Wake
    \/ WithExit \/ AssignDataset \/ FinalCheck

\* the thread running setup() keeps running and the clock keeps advancing;
\* nothing is assumed of the buffer writer
FairSpec == Spec /\ WF_vars(SetupStep) /\ WF_vars(Tick)

TypeOK ==
    /\ msg_timeout \in 0..MaxTimeout
    /\ num_msgs_to_start \in (0 - BadMsgs)..MaxMsgs
    /\ current_idx \in 0..MaxIdx
    /\ dl_idx \in -1..MaxIdx
    /\ status \in {"Unbound", "False", "Status", "True"}
    /\ gate \in {"NOT_ENTERED", "WAITING", "READY", "TIMED_OUT"}
    /\ outcome \in {"running", "returned", "raised"}

\* ---------------------------------------------------------------- claims
HasEvent(e) == \E i \in DOMAIN trace : trace[i] = e
Finished == pc = "done"
Threshold == num_msgs_to_start - 1

\* C1: for k >= 1, a run whose gate ended TIMED_OUT ends with the fatal
\* timeout error (NameError) raised by setup(), and setup() returns normally
\* only from a run whose gate reached READY.
C1_TimeoutRaisesFatal ==
    (num_msgs_to_start >= 1 /\ Finished) =>
        /\ gate = "TIMED_OUT" => (outcome = "raised" /\ exception.type = "NameError")
        /\ outcome = "returned" => gate = "READY"

\* C2: whenever the dataset handle has been stored on the trainer, some poll
\* of the run has read a count >= num_msgs_to_start - 1; on a TIMED_OUT run
\* no dataset handle is stored.
C2_DatasetOnlyAfterReady ==
    /\ dataset # "Unset" => readyObserved
    /\ gate = "TIMED_OUT" => dataset = "Unset"

\* C3 (as stated): for k >= 1, if the buffer count is >= k-1 at any moment
\* at which less than msg_timeout has elapsed since the gate was entered
\* (also a moment inside the sleep), the finished run has gate READY, a normal
\* return and a stored dataset handle.
C3_ReachedInTimeReady ==
    (num_msgs_to_start >= 1 /\ reachedInTime /\ Finished) =>
        (gate = "READY" /\ outcome = "returned" /\ dataset = "train_dataset")

\* C3 (amended): for k >= 1, if a poll (a read made after a deadline test
\* that passed) reads a count >= k-1, the gate goes to READY at that poll,
\* setup() returns normally and the stored dataset handle is non-null.
C3_PolledInTimeReady ==
    (num_msgs_to_start >= 1 /\ readyObserved) =>
        /\ pc = "test" \/ gate = "READY"
        /\ Finished => (outcome = "returned" /\ dataset = "train_dataset")

C3_Witness ==
    /\ num_msgs_to_start >= 2 /\ readyObserved /\ sleeps >= 1
    /\ Finished /\ outcome = "returned" /\ gate = "READY"
    /\ dataset = "train_dataset"

\* C4: with msg_timeout = 0 and a buffer already ready when the gate is
\* entered, the gate ends READY and the buffer was read at least once.
C4_ZeroTimeoutReadyAtEntry ==
    (/\ msg_timeout = 0 /\ num_msgs_to_start >= 1
     /\ idxAtEntry >= Threshold
     /\ gate \in {"READY", "TIMED_OUT"}) =>
        (gate = "READY" /\ polls >= 1)

\* C5: with msg_timeout = 0, count 0 at entry and a threshold above 0, the
\* finished run never slept, its gate is TIMED_OUT and setup() raised the
\* fatal timeout error.
C5_ZeroTimeoutEmptyBuffer ==
    (/\ msg_timeout = 0 /\ idxAtEntry = 0 /\ Threshold > 0
     /\ Finished) =>
        /\ sleeps = 0
        /\ gate = "TIMED_OUT"
        /\ outcome = "raised" /\ exception.type = "NameError"

\* C6: the step that evaluates a poll declares READY exactly when the value
\* read is >= num_msgs_to_start - 1: with k = 1 the first poll reading 0 goes
\* to READY without sleeping, and for k >= 2 a poll reading k-2 leaves the
\* gate WAITING.
C6_ReadinessExact ==
    [][(pc = "test" /\ pc' # "test") =>
        /\ (num_msgs_to_start = 1 /\ dl_idx = 0 /\ polls = 1) =>
                (gate' = "READY" /\ pc' = "with_exit" /\ sleeps' = 0)
        /\ (num_msgs_to_start >= 2 /\ dl_idx = num_msgs_to_start - 2) =>
                (gate' = "WAITING" /\ pc' = "sleep")
        /\ gate' = "READY" <=> dl_idx >= num_msgs_to_start - 1]_vars

C6_Witness ==
    /\ num_msgs_to_start = 1 /\ polls = 1 /\ dl_idx = 0
    /\ gate = "READY" /\ sleeps = 0

\* C7: a poll after the first that reads any value >= num_msgs_to_start - 1
\* ends in READY, whatever the previous poll read and however far the count
\* jumped or overshot in between.
C7_JumpTolerated ==
    (polls >= 2 /\ pc # "test" /\ dl_idx >= Threshold) => gate = "READY"

C7_Witness ==
    /\ polls >= 2 /\ prevRead = 0
    /\ dl_idx > Threshold /\ dl_idx - prevRead >= 2
    /\ gate = "READY"

\* C8: for num_msgs_to_start <= 0 the gate never reaches READY and a
\* finished setup() has ended in an error.
C8_NonPositiveRejected ==
    num_msgs_to_start <= 0 =>
        /\ gate # "READY"
        /\ Finished => outcome = "raised"

\* the steps before the gate, in the order of a run that completes them
PreGateSteps(withViewer) ==
    <<"pipeline", "optimizers", "viewer_init">>
    \o (IF withViewer THEN <<"viewer">> ELSE << >>)
    \o <<"check_viewer_warnings", "load_checkpoint", "callbacks", "event_writer",
         "local_writer", "put_config", "profiler", "print_waiting">>
NotWarning(e) == e # "legacy_warning"
PastLegacyCheck == pc \notin {"pipeline", "optimizers", "viewer_init", "legacy_check"}
MatchesPreGate(t) ==
    LET expected == PreGateSteps(viewer_enabled /\ local_rank = 0)
    IN  Len(t) >= Len(expected) /\ SubSeq(t, 1, Len(expected)) = expected

\* C9: with the legacy viewer requested on local_rank 0 the warning is
\* printed (fourth event of the run), setup() is not aborted at that step,
\* and once the gate is entered the steps that ran are, the warning aside,
\* the same as in a run without the legacy viewer.
C9_LegacyWarningNonFatal ==
    /\ (legacy_enabled /\ local_rank = 0) =>
          /\ exception.at # "legacy_check"
          /\ HasEvent("legacy_warning") <=> PastLegacyCheck
          /\ PastLegacyCheck => trace[4] = "legacy_warning"
          /\ gate # "NOT_ENTERED" => MatchesPreGate(SelectSeq(trace, NotWarning))
    /\ (~(legacy_enabled /\ local_rank = 0) /\ gate # "NOT_ENTERED") =>
          MatchesPreGate(trace)

C9_Witness ==
    /\ legacy_enabled /\ local_rank = 0
    /\ HasEvent("legacy_warning")
    /\ Finished /\ outcome = "returned" /\ gate = "READY"

StepOrder == <<"pipeline", "optimizers", "viewer_init", "legacy_check", "viewer_check",
               "check_viewer_warnings", "load_checkpoint", "callbacks", "event_writer",
               "local_writer", "put_config", "profiler">>
StepIndex(s) == CHOOSE i \in DOMAIN StepOrder : StepOrder[i] = s
FailedAfter(s) == StepIndex(thrown.at) > StepIndex(s)
\* what the completed steps built is still in place
NothingRolledBack ==
    /\ FailedAfter("pipeline") => pipeline = "Pipeline"
    /\ FailedAfter("optimizers") => optimizers = "Optimizers"
    /\ FailedAfter("viewer_init") => viewer_state # "Unset"
    /\ (FailedAfter("viewer_check") /\ viewer_enabled /\ local_rank = 0) =>
            (viewer_state = "ROSViewer" /\ banner_messages = "viewer_info")
    /\ FailedAfter("callbacks") => callbacks = "Callbacks"
    /\ FailedAfter("event_writer") => "event_writer" \in writers
    /\ FailedAfter("local_writer") => "local_writer" \in writers
    /\ FailedAfter("put_config") => "config" \in writers
\* neither the failing step nor any later one has taken effect
NoLaterStepRan ==
    /\ \A i \in DOMAIN StepOrder :
          i >= StepIndex(thrown.at) =>
              ~HasEvent(IF StepOrder[i] = "viewer_check" THEN "viewer" ELSE StepOrder[i])
    /\ ~HasEvent("print_waiting") /\ ~HasEvent("dataset")

\* C10: when a step before the gate raises, the caller sees exactly the
\* error that was raised, control stays at the failing step, no later step
\* has run or ever runs, the gate is never entered, no dataset handle is
\* stored, and what earlier steps built is left in place.
C10_PreGateFailurePropagates ==
    /\ []((outcome = "raised" /\ thrown.at \in FallibleSteps) =>
            /\ exception = thrown
            /\ pc = thrown.at
            /\ gate = "NOT_ENTERED" /\ polls = 0
            /\ dataset = "Unset"
            /\ NoLaterStepRan
            /\ NothingRolledBack)
    /\ [][outcome = "raised" =>
            UNCHANGED <<trainer, logging, locals, pc, outcome, exception, trace, gate, polls>>]_vars

C10_Witness ==
    /\ outcome = "raised" /\ thrown.at = "load_checkpoint"
    /\ exception = thrown
    /\ pipeline = "Pipeline" /\ optimizers = "Optimizers"
    /\ gate = "NOT_ENTERED" /\ dataset = "Unset"

\* event a occurs in the run, and event b occurs later
Before(a, b) == \E i, j \in DOMAIN trace : i < j /\ trace[i] = a /\ trace[j] = b

\* C11: whenever the training callbacks have been built the checkpoint
\* restore has completed before them, and whenever the checkpoint restore has
\* completed the pipeline was constructed before the optimizers and the
\* optimizers before the restore.
C11_RestoreBeforeCallbacks ==
    /\ (HasEvent("callbacks") \/ callbacks # "Unset") =>
            Before("load_checkpoint", "callbacks")
    /\ pc = "callbacks" => HasEvent("load_checkpoint")
    /\ HasEvent("load_checkpoint") =>
            /\ Before("pipeline", "optimizers")
            /\ Before("optimizers", "load_checkpoint")
            /\ pipeline = "Pipeline" /\ optimizers = "Optimizers"

C11_Witness ==
    /\ callbacks = "Callbacks"
    /\ Before("load_checkpoint", "callbacks")
    /\ Before("optimizers", "load_checkpoint")

AllWriters == {"event_writer", "local_writer", "config", "profiler"}

\* C12: once the gate has been entered (deadline clock started) every
\* pre-gate step has completed, in order, and from then on no pre-gate step
\* runs: what those steps built and the writer module's state never change
\* again.
C12_PreGateCompleteBeforeGate ==
    /\ [](gate # "NOT_ENTERED" =>
            /\ MatchesPreGate(SelectSeq(trace, NotWarning))
            /\ pipeline = "Pipeline" /\ optimizers = "Optimizers"
            /\ viewer_state # "Unset" /\ callbacks = "Callbacks"
            /\ writers = AllWriters
            /\ pc \notin FallibleSteps /\ pc # "legacy_check")
    /\ [](gate = "NOT_ENTERED" => (polls = 0 /\ dl_idx = -1))
    /\ [][gate # "NOT_ENTERED" =>
            UNCHANGED <<pipeline, optimizers, viewer_state, banner_messages,
                        callbacks, logging, start>>]_vars

C12_Witness ==
    /\ gate = "WAITING" /\ polls >= 1
    /\ writers = AllWriters /\ callbacks = "Callbacks"

\* C14 (as stated): the event writer, the local writer and the profiler are
\* all set up before the configuration snapshot is recorded, and the
\* snapshot is recorded before the gate is entered.
C14_WritersProfilerBeforeConfig ==
    /\ HasEvent("put_config") =>
            /\ Before("event_writer", "put_config")
            /\ Before("local_writer", "put_config")
            /\ Before("profiler", "put_config")
    /\ gate # "NOT_ENTERED" => Before("put_config", "print_waiting")

\* C14 (amended): the event writer and the local writer are set up before
\* the configuration snapshot is recorded, the profiler is set up after the
\* snapshot, and both the snapshot and the profiler come before the gate is
\* entered.
C14_WritersConfigProfilerGate ==
    /\ HasEvent("put_config") =>
            /\ Before("event_writer", "local_writer")
            /\ Before("local_writer", "put_config")
            /\ ~HasEvent("profiler") \/ Before("put_config", "profiler")
    /\ HasEvent("profiler") => Before("put_config", "profiler")
    /\ gate # "NOT_ENTERED" =>
            /\ Before("put_config", "print_waiting")
            /\ Before("profiler", "print_waiting")

C14_Witness ==
    /\ gate = "WAITING"
    /\ Before("local_writer", "put_config")
    /\ Before("put_config", "profiler")
    /\ Before("profiler", "print_waiting")

GateTerminal == gate \in {"READY", "TIMED_OUT"}

\* C13: under any behaviour of the buffer writer a gate that is WAITING
\* eventually is READY or TIMED_OUT, and once it is in one of the two it
\* stays in that one and performs no further poll or sleep.
C13_GateTerminates ==
    /\ (gate = "WAITING") ~> GateTerminal
    /\ [][GateTerminal =>
            (gate' = gate /\ polls' = polls /\ sleeps' = sleeps /\ dl_idx' = dl_idx)]_vars

C13_Witness ==
    /\ gate = "TIMED_OUT" /\ polls >= 2 /\ current_idx = 0 /\ Finished

\* a step that creates the status indicator (line 122) or updates it (129-130)
IndicatorStep ==
    \/ pc = "with_enter" /\ pc' = "while_test"
    \/ pc = "test" /\ pc' = "sleep"

\* C15: creating the status indicator and updating it change neither the
\* gate's state nor the success flag that setup() tests afterwards, so a
\* finished setup() has returned normally exactly when the gate ended READY
\* and has raised exactly when it ended TIMED_OUT, as it would without the
\* indicator.
C15_IndicatorCosmetic ==
    /\ [][IndicatorStep => UNCHANGED <<status, gate, dl_idx, start, polls>>]_vars
    /\ [](Finished => (outcome = "returned" <=> gate = "READY"))

\* the deadline test that ends the wait of a gate whose buffer is below the
\* threshold (the count never decreases, so it has been below all along)
StalledTimeoutStep ==
    /\ pc = "while_test" /\ gate = "WAITING" /\ gate' = "TIMED_OUT"
    /\ current_idx < Threshold

\* C16 (as stated): a stalled gate is declared TIMED_OUT no earlier than
\* msg_timeout after it was entered and no later than msg_timeout plus one
\* poll interval.
C16_TimeoutWithinOneInterval ==
    [][StalledTimeoutStep =>
        /\ now - start >= msg_timeout
        /\ now - start <= msg_timeout + SleepTicks]_vars

\* C16 (amended): a stalled gate is declared TIMED_OUT no earlier than
\* msg_timeout after it was entered, at the first deadline test made once
\* msg_timeout has elapsed: the test before it, if any, passed with less than
\* msg_timeout elapsed and was followed by one poll and one sleep of at least
\* a poll interval (no upper bound on the delay holds).
C16_TimeoutNotEarly ==
    /\ [][StalledTimeoutStep =>
            /\ now - start >= msg_timeout
            /\ sleeps = polls
            /\ polls >= 1 => (/\ testedAt - start < msg_timeout
                              /\ now - testedAt >= SleepTicks)]_vars
    /\ [](gate = "TIMED_OUT" => testedAt - start >= msg_timeout)

C16_Witness ==
    /\ gate = "TIMED_OUT" /\ current_idx < Threshold
    /\ polls >= 1 /\ msg_timeout >= 1
    /\ testedAt - start > msg_timeout + SleepTicks

\* C17: evaluating a poll that read a count below the threshold, any number
\* of times and with the same value as before, leaves the gate WAITING and
\* only updates the status line before the sleep; the gate leaves WAITING
\* only by a read that satisfies the readiness condition or by a deadline
\* test made once msg_timeout has elapsed.
C17_PollingIdempotent ==
    /\ [][(pc = "test" /\ pc' # "test" /\ dl_idx < Threshold) =>
            /\ gate' = "WAITING" /\ pc' = "sleep" /\ shown' = dl_idx
            /\ UNCHANGED <<config, trainer, logging, start, status, dl_idx,
                           current_idx, trace, outcome>>]_vars
    /\ [][(gate = "WAITING" /\ gate' # "WAITING") =>
            \/ pc = "test" /\ dl_idx >= Threshold /\ gate' = "READY"
            \/ pc = "while_test" /\ now - start >= msg_timeout /\ gate' = "TIMED_OUT"]_vars

C17_Witness ==
    /\ gate = "WAITING" /\ pc = "sleep"
    /\ polls >= 2 /\ prevRead = dl_idx /\ dl_idx < Threshold

GatePcs == {"gate_start", "with_enter", "while_test", "poll", "test", "sleep",
            "sleeping", "with_exit"}

\* C18: no step of the gate changes the buffer's current_idx, the
\* configuration, the trainer's attributes or the writer state; current_idx
\* changes only in steps that leave setup() where it is, and only upwards.
C18_GateNeverWritesBuffer ==
    /\ [][(pc \in GatePcs /\ pc' # pc) =>
            UNCHANGED <<current_idx, config, trainer, logging>>]_vars
    /\ [][current_idx' # current_idx =>
            (current_idx' > current_idx /\ UNCHANGED <<pc, locals, gate, polls>>)]_vars

C18_Witness ==
    /\ gate = "WAITING" /\ polls >= 1 /\ sleeps >= 1
    /\ current_idx > 0 /\ dl_idx = 0

PastViewerInit == pc \notin {"pipeline", "optimizers", "viewer_init"}
PastViewerCheck == PastViewerInit /\ pc \notin {"legacy_check", "viewer_check"}

\* C19: the viewer is constructed exactly when the viewer is enabled and
\* local_rank = 0; then its banner is captured and is what the local writer
\* receives; otherwise viewer state and banner stay None; a legacy warning
\* precedes the construction when both happen.
C19_ViewerIffEnabledPrimary ==
    /\ viewer_state = "ROSViewer" => (viewer_enabled /\ local_rank = 0)
    /\ (PastViewerCheck /\ viewer_enabled /\ local_rank = 0) =>
            (viewer_state = "ROSViewer" /\ banner_messages = "viewer_info"
             /\ HasEvent("viewer"))
    /\ (PastViewerInit /\ ~(viewer_enabled /\ local_rank = 0)) =>
            (viewer_state = "None" /\ banner_messages = "None" /\ ~HasEvent("viewer"))
    /\ "local_writer" \in writers =>
            /\ local_banner = banner_messages
            /\ local_banner = "viewer_info" <=> (viewer_enabled /\ local_rank = 0)
    /\ (HasEvent("legacy_warning") /\ HasEvent("viewer")) =>
            Before("legacy_warning", "viewer")

C19_Witness ==
    /\ legacy_enabled /\ viewer_enabled /\ local_rank = 0
    /\ viewer_state = "ROSViewer" /\ local_banner = "viewer_info"
    /\ Before("legacy_warning", "viewer")

\* C20 (as stated): the buffer is never read once the elapsed time has
\* reached msg_timeout, and READY is never declared unless the buffer was
\* ready at some moment before the deadline.
C20_NoReadAfterDeadline ==
    /\ [][(pc = "poll" /\ pc' = "test") => now - start < msg_timeout]_vars
    /\ [][(gate = "WAITING" /\ gate' = "READY") => reachedInTime]_vars

\* C20 (amended): every read of the buffer directly follows a deadline test
\* that passed (less than msg_timeout had elapsed at the test); after a
\* failed test the gate never reads again and never becomes READY; READY is
\* declared only from a read that followed a passing test.
C20_ReadOnlyAfterPassingTest ==
    /\ [][(pc = "poll" /\ pc' = "test") =>
            (gate = "WAITING" /\ testedAt - start < msg_timeout)]_vars
    /\ [][gate = "TIMED_OUT" =>
            (gate' = gate /\ polls' = polls /\ dl_idx' = dl_idx)]_vars
    /\ [](gate = "READY" => (polls >= 1 /\ testedAt - start < msg_timeout))

C20_Witness ==
    /\ gate = "READY" /\ num_msgs_to_start >= 1
    /\ ~reachedInTime
    /\ testedAt - start < msg_timeout
====
